---- MODULE Spec2Model ----
(***************************************************************************)
(* Model of the vault watch scheduler of dnonakolesax/viper (vault.go):    *)
(* Viper.AddVault loads the given paths through vaultClient.get and, when  *)
(* a watch configuration is given, starts Viper.watchVault, a single loop  *)
(* over a container/heap of Watchable{path, nextGet}.                      *)
(*                                                                         *)
(* Time is counted in ticks of 1/TicksPerSec second.  A path is the        *)
(* sequence of its "/"-separated segments; a mount "a/b/" is the sequence  *)
(* <<"a","b">>.  Mounts are prefix-free, as the secret store enforces.     *)
(* The clock advances only while the loop is blocked (sleeping, fetching,  *)
(* sending) or is not running; the statements between two blocking points  *)
(* take no time.                                                           *)
(***************************************************************************)
EXTENDS Integers, Sequences, FiniteSets, TLC

\* ---------------------------------------------------------------- bounds
MaxTime == 6
MaxVersion == 2
MaxLease == 2
MaxPeriod == 2
TicksPerSec == 2

Values == {"x", "y"}

\* ------------------------------------------------- mounts and the paths
\* c.vaults as ConfigureVault leaves it: mount -> engine type.
Vaults ==
    (<<"kv">> :> "kv") @@ (<<"db">> :> "database") @@ (<<"team", "db">> :> "database")

\* The argument orders of AddVault(client, watchConfig, paths...) that are tried.
PathLists ==
    { <<>>,
      << <<"kv", "a">> >>, << <<"db", "r">> >>, << <<"team", "db", "r">> >>,
      << <<"kv", "a">>, <<"db", "r">> >>, << <<"db", "r">>, <<"kv", "a">> >>,
      << <<"kv", "a">>, <<"team", "db", "r">> >>,
      << <<"db", "r">>, <<"team", "db", "r">> >> }

ThreePaths == << <<"team", "db", "r">>, <<"db", "r">>, <<"kv", "a">> >>

NilConfig == [nil |-> TRUE, VersionPeriod |-> 0]
WatchConfigs == {NilConfig} \cup { [nil |-> FALSE, VersionPeriod |-> p] : p \in 0..MaxPeriod }

NoPath == <<>>
NoEvent == [path |-> NoPath, nextGet |-> 0]
NoFetch == [path |-> NoPath, kind |-> "none", old |-> 0, data |-> "", hint |-> 0, at |-> 0]

NoLoad == [pc |-> "none", path |-> NoPath, data |-> "", snap |-> << >>]

VARIABLES
    now,          \* the clock, in ticks
    paths,        \* AddVault's paths argument
    watchConfig,  \* AddVault's watchConfig argument, NilConfig for nil
    addpc,        \* AddVault: "adding" | "ok" | "error"
    idx,          \* AddVault: index of the next path of the range loop
    leases,       \* c.leases
    versions,     \* c.versions
    secretstore,  \* v.secretstore
    pc,           \* watchVault: "none" | "start" | "top" | "idle" | "sleeping"
                  \*   | "fetching" | "sending" | "closed" | "failed"
    h,            \* the watchableHeap
    event,        \* the popped Watchable
    oldVersion,   \* line 198
    leaseTime,    \* line 210, kept across the send
    alertChannel, \* the send pending on the unbuffered AlertChannel
    closed,       \* AlertChannel was closed
    subGot,       \* what the subscriber's last receive returned
    last,         \* history: the outcome of the loop's last call of c.get
    watched,      \* history: the paths pushed at startup
    everFetched,  \* history: the loop has called c.get
    load2         \* a later call of AddVault on the same Viper: its position, the
                  \*   path and value it stores, the cache as its write found it

vars == <<now, paths, load2, watchConfig, addpc, idx, leases, versions, secretstore, pc, h,
          event, oldVersion, leaseTime, alertChannel, closed, subGot, last, watched,
          everFetched>>

\* ------------------------------------------------------------- helpers
MapSet(m, k, v) == [x \in DOMAIN m \cup {k} |-> IF x = k THEN v ELSE m[x]]

\* Reading a Go map[string]int: a missing key (or a nil map) reads as 0.
MapGet(m, k) == IF k \in DOMAIN m THEN m[k] ELSE 0

IsPrefix(m, key) == Len(m) < Len(key) /\ SubSeq(key, 1, Len(m)) = m

isVersionable(vtype) == vtype = "kv"

isLeasable(vtype) == vtype = "database"

\* getVaultTypePath: the type of the mount that prefixes key, "" (an error) if none.
getVaultTypePath(key) ==
    IF \E m \in DOMAIN Vaults : IsPrefix(m, key)
    THEN Vaults[CHOOSE m \in DOMAIN Vaults : IsPrefix(m, key)]
    ELSE ""

\* c.vaults[strings.Split(event.path, "/")[0]+"/"]: a lookup by the first segment.
eventVaultType(path) ==
    IF <<Head(path)>> \in DOMAIN Vaults THEN Vaults[<<Head(path)>>] ELSE ""

\* Mutant: the zero poll period is not honoured.
VersionPeriodSet_Always(cfg) == TRUE

\* VersionPeriod != 0, the test of lines 115, 175, 197 and 239.
VersionPeriodSet(cfg) == cfg.VersionPeriod # 0

ErrResult == [err |-> TRUE, data |-> "", hint |-> 0]

\* What the backend can answer to c.get(key): getKV2 (value, version),
\* getDBCreds (credentials, lease seconds), or an error.
FetchResults(key) ==
    {ErrResult} \cup
    CASE getVaultTypePath(key) = "kv" ->
           { [err |-> FALSE, data |-> d, hint |-> n] : d \in Values, n \in 1..MaxVersion }
      [] getVaultTypePath(key) = "database" ->
           { [err |-> FALSE, data |-> d, hint |-> n] : d \in Values, n \in 1..MaxLease }
      [] OTHER -> {}

\* c.get's table writes on success (lines 115-117 and 124-126).
getVersions(cfg, vs, key, r) ==
    IF getVaultTypePath(key) = "kv" /\ ~cfg.nil /\ VersionPeriodSet(cfg)
    THEN MapSet(vs, key, r.hint) ELSE vs

getLeases(cfg, ls, key, r) ==
    IF getVaultTypePath(key) = "database" /\ ~cfg.nil
    THEN MapSet(ls, key, r.hint) ELSE ls

\* ------------------------------------------------------ container/heap
Unix(t) == t \div TicksPerSec

\* Mutant: the comparison is reversed, the latest entry comes first.
Less_Reversed(a, b) == Unix(a.nextGet) > Unix(b.nextGet)

Less(a, b) == Unix(a.nextGet) < Unix(b.nextGet)

Swap(s, i, j) == [s EXCEPT ![i] = s[j], ![j] = s[i]]

\* heap.up and heap.down with 0-based indices i, j, n; s is 1-based.
RECURSIVE up(_, _)
up(s, j) ==
    IF j = 0 THEN s
    ELSE LET i == (j - 1) \div 2 IN
         IF ~Less(s[j + 1], s[i + 1]) THEN s ELSE up(Swap(s, i + 1, j + 1), i)

RECURSIVE down(_, _, _)
down(s, i, n) ==
    LET j1 == 2 * i + 1 IN
    IF j1 >= n THEN s
    ELSE LET j2 == j1 + 1
             j == IF j2 < n /\ Less(s[j2 + 1], s[j1 + 1]) THEN j2 ELSE j1
         IN IF ~Less(s[j + 1], s[i + 1]) THEN s ELSE down(Swap(s, i + 1, j + 1), j, n)

heapPush(s, x) == up(Append(s, x), Len(s))

\* Mutant: the minimum is returned but stays in the heap.
heapPop_Peek(s) == [val |-> s[1], rest |-> s]

heapPop(s) ==
    LET n == Len(s) - 1
        t == down(Swap(s, 1, n + 1), 0, n)
    IN [val |-> t[n + 1], rest |-> SubSeq(t, 1, n)]

RECURSIVE pushAll(_, _, _, _)
\* Pushes the keys of order (a sequence) with due time t + delay[key] * unit.
pushAll(s, order, t, delay) ==
    IF order = <<>> THEN s
    ELSE pushAll(heapPush(s, [path |-> Head(order), nextGet |-> t + delay[Head(order)]]),
                 Tail(order), t, delay)

\* The orders in which a Go range may visit the keys of a map.
Orders(S) == { o \in [1..Cardinality(S) -> S] : \A i, j \in DOMAIN o : o[i] = o[j] => i = j }

HeapPaths(s) == { s[i].path : i \in DOMAIN s }

\* ---------------------------------------------------------------- Init
Init ==
    /\ \/ /\ now \in {0, 1}
          /\ paths \in PathLists
          /\ watchConfig \in WatchConfigs
       \/ /\ now = 0
          /\ paths = ThreePaths
          /\ watchConfig = [nil |-> FALSE, VersionPeriod |-> MaxPeriod]
    /\ addpc = "adding"
    /\ idx = 1
    /\ leases = << >>
    /\ versions = << >>
    /\ secretstore = << >>
    /\ pc = "none"
    /\ h = << >>
    /\ event = NoEvent
    /\ oldVersion = 0
    /\ leaseTime = 0
    /\ alertChannel = << >>
    /\ closed = FALSE
    /\ subGot = [kind |-> "nothing", Key |-> NoPath, Value |-> ""]
    /\ last = NoFetch
    /\ watched = {}
    /\ everFetched = FALSE
    /\ load2 = NoLoad


\* ------------------------------------------------------------ AddVault
\* Mutant: the error of the initial fetch does not stop AddVault from watching.
AddVaultGetFail_StartsWatch ==
    /\ addpc = "adding" /\ idx <= Len(paths)
    /\ addpc' = "error"
    /\ pc' = IF watchConfig.nil THEN "none" ELSE "start"
    /\ UNCHANGED <<now, paths, load2, watchConfig, idx, leases, versions, secretstore, h,
                   event, oldVersion, leaseTime, alertChannel, closed, subGot, last,
                   watched, everFetched>>

\* One turn of the range loop of lines 244-250 that fails: AddVault returns the error.
AddVaultGetFail ==
    /\ addpc = "adding" /\ idx <= Len(paths)
    /\ addpc' = "error"
    /\ UNCHANGED <<now, paths, load2, watchConfig, idx, leases, versions, secretstore, pc, h,
                   event, oldVersion, leaseTime, alertChannel, closed, subGot, last,
                   watched, everFetched>>

\* One turn of the range loop of lines 244-250 that succeeds.
AddVaultGet ==
    /\ addpc = "adding" /\ idx <= Len(paths)
    /\ \E r \in FetchResults(paths[idx]) :
         /\ ~r.err
         /\ versions' = getVersions(watchConfig, versions, paths[idx], r)
         /\ leases' = getLeases(watchConfig, leases, paths[idx], r)
         /\ secretstore' = MapSet(secretstore, paths[idx], r.data)
    /\ idx' = idx + 1
    /\ UNCHANGED <<now, paths, load2, watchConfig, addpc, pc, h, event, oldVersion, leaseTime,
                   alertChannel, closed, subGot, last, watched, everFetched>>

\* Mutant: the watch goroutine is started without looking at watchConfig.
AddVaultReturn_AlwaysWatch ==
    /\ addpc = "adding" /\ idx > Len(paths)
    /\ addpc' = "ok"
    /\ pc' = "start"
    /\ UNCHANGED <<now, paths, load2, watchConfig, idx, leases, versions, secretstore, h, event,
                   oldVersion, leaseTime, alertChannel, closed, subGot, last, watched,
                   everFetched>>

\* Lines 252-257: the watch goroutine is started when a configuration was given.
AddVaultReturn ==
    /\ addpc = "adding" /\ idx > Len(paths)
    /\ addpc' = "ok"
    /\ pc' = IF watchConfig.nil THEN "none" ELSE "start"
    /\ UNCHANGED <<now, paths, load2, watchConfig, idx, leases, versions, secretstore, h, event,
                   oldVersion, leaseTime, alertChannel, closed, subGot, last, watched,
                   everFetched>>

\* ---------------------------------------------------------- watchVault
\* Mutant: the empty heap is not detected at startup.
startupEmpty_Never(s) == FALSE

\* len(h) == 0 at line 180.
startupEmpty(s) == Len(s) = 0

\* Lines 171-186: the initial pushes, the close on an empty heap.
WatchStart ==
    /\ pc = "start"
    /\ \E lo \in Orders(DOMAIN leases) :
       \E vo \in Orders(IF VersionPeriodSet(watchConfig) THEN DOMAIN versions ELSE {}) :
         LET h1 == pushAll(<< >>, lo, now, [p \in DOMAIN leases |-> leases[p] * TicksPerSec])
             h2 == pushAll(h1, vo, now, [p \in DOMAIN versions |-> watchConfig.VersionPeriod])
         IN /\ h' = h2
            /\ watched' = HeapPaths(h2)
            /\ closed' = startupEmpty(h2)
            /\ pc' = IF startupEmpty(h2) THEN "closed" ELSE "top"
    /\ UNCHANGED <<now, paths, load2, watchConfig, addpc, idx, leases, versions, secretstore,
                   event, oldVersion, leaseTime, alertChannel, subGot, last, everFetched>>

\* Which branch of lines 197-218 the popped event takes.
Branch(path) ==
    IF VersionPeriodSet(watchConfig) /\ isVersionable(eventVaultType(path)) THEN "versioned"
    ELSE IF isLeasable(eventVaultType(path)) THEN "leased"
    ELSE "none"

\* Mutant: the loop does not wait for the due time.
SleepOver_NoWait(t, ev) == TRUE

\* time.Sleep(time.Until(event.nextGet)) has returned.
SleepOver(t, ev) == t >= ev.nextGet

\* Mutant: the cache write is left out.
storeWrite_Dropped(store, path, data) == store

\* v.secretstore[event.path] = string(data), lines 205 and 215.
storeWrite(store, path, data) == MapSet(store, path, data)

\* Mutant: an unchanged version counts as a change.
VersionChanged_OrEqual(version, old) == version >= old

\* version > oldVersion, line 204.
VersionChanged(version, old) == version > old

\* Mutant: a fixed second instead of the configured period.
versionedNextGet_OneSecond(t, cfg) == t + TicksPerSec

\* Line 208.
versionedNextGet(t, cfg) == t + cfg.VersionPeriod

\* Line 217.
leasedNextGet(t, lease) == t + lease * TicksPerSec

\* Lines 190-193: the queue is empty, sleep one second.
LoopIdle ==
    /\ pc = "top" /\ Len(h) = 0
    /\ pc' = "idle"
    /\ event' = [path |-> NoPath, nextGet |-> now + TicksPerSec]
    /\ UNCHANGED <<now, paths, load2, watchConfig, addpc, idx, leases, versions, secretstore, h,
                   oldVersion, leaseTime, alertChannel, closed, subGot, last, watched,
                   everFetched>>

IdleWake ==
    /\ pc = "idle" /\ SleepOver(now, event)
    /\ pc' = "top"
    /\ UNCHANGED <<now, paths, load2, watchConfig, addpc, idx, leases, versions, secretstore, h,
                   event, oldVersion, leaseTime, alertChannel, closed, subGot, last,
                   watched, everFetched>>

\* Line 194: heap.Pop, then the sleep of line 196 begins.
LoopPop ==
    /\ pc = "top" /\ Len(h) > 0
    /\ event' = heapPop(h).val
    /\ h' = heapPop(h).rest
    /\ pc' = "sleeping"
    /\ UNCHANGED <<now, paths, load2, watchConfig, addpc, idx, leases, versions, secretstore,
                   oldVersion, leaseTime, alertChannel, closed, subGot, last, watched,
                   everFetched>>

\* Lines 196-199 and 210: the sleep is over, the branch is taken, c.get is called.
LoopWake ==
    /\ pc = "sleeping" /\ SleepOver(now, event)
    /\ Branch(event.path) # "none"
    /\ oldVersion' = IF Branch(event.path) = "versioned"
                     THEN MapGet(versions, event.path) ELSE oldVersion
    /\ pc' = "fetching"
    /\ everFetched' = TRUE
    /\ UNCHANGED <<now, paths, load2, watchConfig, addpc, idx, leases, versions, secretstore, h,
                   event, leaseTime, alertChannel, closed, subGot, last, watched>>

\* Lines 197 and 209 both false: the popped event is neither fetched nor pushed back.
LoopSkip ==
    /\ pc = "sleeping" /\ SleepOver(now, event)
    /\ Branch(event.path) = "none"
    /\ pc' = "top"
    /\ UNCHANGED <<now, paths, load2, watchConfig, addpc, idx, leases, versions, secretstore, h,
                   event, oldVersion, leaseTime, alertChannel, closed, subGot, last,
                   watched, everFetched>>

\* Mutant: the channel is closed when the loop ends on a fetch error.
FetchFail_Closes ==
    /\ pc = "fetching"
    /\ pc' = "failed"
    /\ closed' = TRUE
    /\ last' = [path |-> event.path, kind |-> "error", old |-> 0, data |-> "", hint |-> 0,
                at |-> now]
    /\ UNCHANGED <<now, paths, load2, watchConfig, addpc, idx, leases, versions, secretstore, h,
                   event, oldVersion, leaseTime, alertChannel, subGot, watched,
                   everFetched>>

\* Mutant: the failed path is skipped and the loop goes on.
FetchFail_Continue ==
    /\ pc = "fetching"
    /\ pc' = "top"
    /\ last' = [path |-> event.path, kind |-> "error", old |-> 0, data |-> "", hint |-> 0,
                at |-> now]
    /\ UNCHANGED <<now, paths, load2, watchConfig, addpc, idx, leases, versions, secretstore, h,
                   event, oldVersion, leaseTime, alertChannel, closed, subGot, watched,
                   everFetched>>

\* Lines 200-203 and 211-214: c.get failed, the goroutine returns.
FetchFail ==
    /\ pc = "fetching"
    /\ pc' = "failed"
    /\ last' = [path |-> event.path, kind |-> "error", old |-> 0, data |-> "", hint |-> 0,
                at |-> now]
    /\ UNCHANGED <<now, paths, load2, watchConfig, addpc, idx, leases, versions, secretstore, h,
                   event, oldVersion, leaseTime, alertChannel, closed, subGot, watched,
                   everFetched>>

\* Lines 199-208: c.get succeeded on the versioned branch.
FetchVersioned ==
    /\ pc = "fetching" /\ Branch(event.path) = "versioned"
    /\ \E r \in FetchResults(event.path) :
         /\ ~r.err
         /\ versions' = getVersions(watchConfig, versions, event.path, r)
         /\ leases' = getLeases(watchConfig, leases, event.path, r)
         /\ last' = [path |-> event.path, kind |-> "kv", old |-> MapGet(versions, event.path),
                     data |-> r.data, hint |-> r.hint, at |-> now]
         /\ IF VersionChanged(r.hint, oldVersion)
            THEN /\ secretstore' = storeWrite(secretstore, event.path, r.data)
                 /\ alertChannel' = << [Key |-> event.path, Value |-> r.data] >>
                 /\ pc' = "sending"
                 /\ h' = h
            ELSE /\ h' = heapPush(h, [path |-> event.path,
                                      nextGet |-> versionedNextGet(now, watchConfig)])
                 /\ pc' = "top"
                 /\ UNCHANGED <<secretstore, alertChannel>>
    /\ UNCHANGED <<now, paths, load2, watchConfig, addpc, idx, event, oldVersion, leaseTime,
                   closed, subGot, watched, everFetched>>

\* Mutant: a credential equal to the cached one is neither written nor sent.
FetchLeased_OnlyOnChange ==
    /\ pc = "fetching" /\ Branch(event.path) = "leased"
    /\ \E r \in FetchResults(event.path) :
         /\ ~r.err
         /\ versions' = getVersions(watchConfig, versions, event.path, r)
         /\ leases' = getLeases(watchConfig, leases, event.path, r)
         /\ last' = [path |-> event.path, kind |-> "database", old |-> 0,
                     data |-> r.data, hint |-> r.hint, at |-> now]
         /\ leaseTime' = r.hint
         /\ IF event.path \in DOMAIN secretstore /\ secretstore[event.path] = r.data
            THEN /\ h' = heapPush(h, [path |-> event.path,
                                      nextGet |-> leasedNextGet(now, r.hint)])
                 /\ pc' = "top"
                 /\ UNCHANGED <<secretstore, alertChannel>>
            ELSE /\ secretstore' = storeWrite(secretstore, event.path, r.data)
                 /\ alertChannel' = << [Key |-> event.path, Value |-> r.data] >>
                 /\ pc' = "sending"
                 /\ h' = h
    /\ UNCHANGED <<now, paths, load2, watchConfig, addpc, idx, event, oldVersion, closed,
                   subGot, watched, everFetched>>

\* Lines 210-216: c.get succeeded on the leased branch.
FetchLeased ==
    /\ pc = "fetching" /\ Branch(event.path) = "leased"
    /\ \E r \in FetchResults(event.path) :
         /\ ~r.err
         /\ versions' = getVersions(watchConfig, versions, event.path, r)
         /\ leases' = getLeases(watchConfig, leases, event.path, r)
         /\ last' = [path |-> event.path, kind |-> "database", old |-> 0,
                     data |-> r.data, hint |-> r.hint, at |-> now]
         /\ leaseTime' = r.hint
         /\ secretstore' = storeWrite(secretstore, event.path, r.data)
         /\ alertChannel' = << [Key |-> event.path, Value |-> r.data] >>
         /\ pc' = "sending"
    /\ UNCHANGED <<now, paths, load2, watchConfig, addpc, idx, h, event, oldVersion, closed,
                   subGot, watched, everFetched>>

\* Mutant: the send does not wait for the subscriber.
AfterSend_NoWait ==
    /\ pc = "sending"
    /\ h' = heapPush(h, [path |-> event.path,
                         nextGet |-> IF Branch(event.path) = "versioned"
                                     THEN versionedNextGet(now, watchConfig)
                                     ELSE leasedNextGet(now, leaseTime)])
    /\ pc' = "top"
    /\ UNCHANGED <<now, paths, load2, watchConfig, addpc, idx, leases, versions, secretstore,
                   event, oldVersion, leaseTime, alertChannel, closed, subGot, last,
                   watched, everFetched>>

\* Lines 208 and 217 after the send of lines 206 and 216 was accepted.
AfterSend ==
    /\ pc = "sending" /\ alertChannel = << >>
    /\ h' = heapPush(h, [path |-> event.path,
                         nextGet |-> IF Branch(event.path) = "versioned"
                                     THEN versionedNextGet(now, watchConfig)
                                     ELSE leasedNextGet(now, leaseTime)])
    /\ pc' = "top"
    /\ UNCHANGED <<now, paths, load2, watchConfig, addpc, idx, leases, versions, secretstore,
                   event, oldVersion, leaseTime, alertChannel, closed, subGot, last,
                   watched, everFetched>>

\* ------------------------------------------------------ the subscriber
\* event := <-eventChan, line 344: the pending send is accepted.
Recv ==
    /\ alertChannel # << >>
    /\ subGot' = [kind |-> "event", Key |-> alertChannel[1].Key,
                  Value |-> alertChannel[1].Value]
    /\ alertChannel' = << >>
    /\ UNCHANGED <<now, paths, load2, watchConfig, addpc, idx, leases, versions, secretstore, pc,
                   h, event, oldVersion, leaseTime, closed, last, watched, everFetched>>

\* A receive from the closed channel returns the zero value and ok = false.
RecvClosed ==
    /\ closed /\ alertChannel = << >>
    /\ subGot' = [kind |-> "closed", Key |-> NoPath, Value |-> ""]
    /\ UNCHANGED <<now, paths, load2, watchConfig, addpc, idx, leases, versions, secretstore, pc,
                   h, event, oldVersion, leaseTime, alertChannel, closed, last, watched,
                   everFetched>>

\* ----------------------------------------------------------- the clock
\* The loop is at a blocking point, has ended, or was never started.
Blocked ==
    \/ pc \in {"idle", "sleeping", "fetching", "closed", "failed"}
    \/ pc = "sending" /\ alertChannel # << >>
    \/ pc = "none" /\ addpc # "adding"

Tick ==
    /\ now < MaxTime
    /\ Blocked
    /\ now' = now + 1
    /\ UNCHANGED <<paths, load2, watchConfig, addpc, idx, leases, versions, secretstore, pc, h,
                   event, oldVersion, leaseTime, alertChannel, closed, subGot, last,
                   watched, everFetched>>

Next ==
    \/ AddVaultGetFail
    \/ AddVaultGet
    \/ AddVaultReturn
    \/ WatchStart
    \/ LoopIdle
    \/ IdleWake
    \/ LoopPop
    \/ LoopWake
    \/ LoopSkip
    \/ FetchFail
    \/ FetchVersioned
    \/ FetchLeased
    \/ AfterSend
    \/ Recv
    \/ RecvClosed
    \/ Tick

Spec == Init /\ [][Next]_vars


\* ===================================================================
\* Properties
\* ===================================================================
Running == pc \in {"top", "idle", "sleeping", "fetching", "sending"}

Processing(p) == pc \in {"sleeping", "fetching", "sending"} /\ event.path = p

\* The kind a path has by the mount it was registered under.
IsVersionedPath(p) == getVaultTypePath(p) = "kv"

IsLeasedPath(p) == getVaultTypePath(p) = "database"

\* A step of the loop in which a call of c.get returns successfully.
FetchReturns == pc = "fetching" /\ pc' \in {"sending", "top"}

\* Outside such a step the loop neither writes the cache nor sends an event.
QuietOtherwise ==
    (pc # "none" /\ ~FetchReturns) =>
        /\ secretstore' = secretstore
        /\ alertChannel' = alertChannel \/ alertChannel' = << >>

\* C1: a versioned path fetched by the loop with a version not above the one recorded
\* before the fetch causes no cache write and no event; with a strictly greater version
\* it causes exactly one cache write of the fetched value and exactly one event
\* (path, fetched value).
C1_VersionedPolicy ==
    [][ /\ QuietOtherwise
        /\ (FetchReturns /\ IsVersionedPath(event.path)) =>
              /\ last'.path = event.path
              /\ alertChannel = << >>
              /\ IF last'.hint <= MapGet(versions, event.path)
                 THEN secretstore' = secretstore /\ alertChannel' = << >>
                 ELSE /\ secretstore' = MapSet(secretstore, event.path, last'.data)
                      /\ alertChannel' = << [Key |-> event.path, Value |-> last'.data] >>
      ]_vars

C1_Witness ==
    /\ pc = "sending" /\ last.kind = "kv" /\ last.hint > last.old /\ last.old > 0
    /\ alertChannel = << [Key |-> last.path, Value |-> last.data] >>
    /\ secretstore[last.path] = last.data

\* C2: every successful fetch of a leased path by the loop causes exactly one cache
\* write and exactly one event (path, fetched value), also when the fetched value is
\* the one already cached.
C2_LeasedPolicy ==
    [][ /\ (pc # "none" /\ ~FetchReturns) => secretstore' = secretstore
        /\ (pc # "none" /\ ~FetchReturns) => alertChannel' \in {alertChannel, << >>}
        /\ (FetchReturns /\ IsLeasedPath(event.path)) =>
              /\ last'.path = event.path
              /\ alertChannel = << >>
              /\ pc' = "sending"
              /\ secretstore' = MapSet(secretstore, event.path, last'.data)
              /\ alertChannel' = << [Key |-> event.path, Value |-> last'.data] >>
      ]_vars

\* The second event of a leased path carries the value of its first one.
C2_Witness ==
    /\ pc = "sending" /\ last.kind = "database"
    /\ alertChannel = << [Key |-> last.path, Value |-> last.data] >>
    /\ subGot = [kind |-> "event", Key |-> last.path, Value |-> last.data]

\* C3: after a failed fetch the loop is over: it never fetches again, never writes the
\* cache, never sends an event and never pushes a path, the failed one included.
C3_ErrorHalts ==
    [][ /\ last.kind = "error" =>
              /\ pc = "failed" /\ pc' = "failed"
              /\ UNCHANGED <<h, secretstore, versions, leases, event, last, closed,
                             everFetched>>
              /\ alertChannel = << >> /\ alertChannel' = << >>
        /\ (last.kind # "error" /\ last'.kind = "error") =>
              /\ pc = "fetching" /\ pc' = "failed"
              /\ last'.path = event.path
              /\ event.path \notin HeapPaths(h')
              /\ UNCHANGED <<h, secretstore, alertChannel>>
      ]_vars

\* The loop has failed and a path still queued is past its due time.
C3_Witness ==
    /\ pc = "failed" /\ last.kind = "error" /\ Len(h) > 0
    /\ \E i \in DOMAIN h : h[i].nextGet < now /\ Branch(h[i].path) # "none"

\* C4: the loop fetches in due-time order: while a path is being fetched, no path that
\* was in the queue with it (and that the loop does fetch) has a strictly smaller due time.
C4_DueOrder ==
    pc = "fetching" =>
        \A i \in DOMAIN h : Branch(h[i].path) # "none" => h[i].nextGet >= event.nextGet

\* C5: a fetch of the loop never starts before the due time the path was queued with.
C5_NeverEarly == pc = "fetching" => now >= event.nextGet

\* A fetch that is late, and one that is on time, both after a real wait.
C5_Witness == pc = "fetching" /\ now > event.nextGet /\ event.nextGet > 1

\* No leased path was registered, and no versioned one or a zero poll period.
InitialSetEmpty ==
    \A i \in DOMAIN paths :
        /\ ~IsLeasedPath(paths[i])
        /\ IsVersionedPath(paths[i]) => watchConfig.VersionPeriod = 0

\* C6: with an empty initial watch set watchVault closes the event channel at once and
\* fetches nothing; the subscriber's receive returns the closed signal, never an event.
C6_EmptyCloses ==
    (pc \notin {"none", "start"} /\ InitialSetEmpty) =>
        /\ pc = "closed" /\ closed
        /\ ~everFetched /\ last = NoFetch
        /\ alertChannel = << >> /\ subGot.kind # "event"

C6_Witness ==
    /\ pc = "closed" /\ subGot.kind = "closed" /\ Len(paths) > 0 /\ now > 2

\* C7: with a zero version poll period no versioned path is ever queued or fetched by
\* the loop: every queue entry, fetch, cache write and event of the loop is for a
\* leased path.
C7_ZeroPeriodSkipsVersioned ==
    [][ (~watchConfig.nil /\ watchConfig.VersionPeriod = 0) =>
          /\ \A i \in DOMAIN h' : IsLeasedPath(h'[i].path)
          /\ pc' \in {"sleeping", "fetching", "sending"} => IsLeasedPath(event'.path)
          /\ last'.kind # "kv"
          /\ alertChannel' # << >> => IsLeasedPath(alertChannel'[1].Key)
          /\ (pc # "none" /\ secretstore' # secretstore) =>
                /\ IsLeasedPath(event.path)
                /\ \A p \in DOMAIN secretstore' \ {event.path} :
                      p \in DOMAIN secretstore /\ secretstore'[p] = secretstore[p]
      ]_vars

\* A versioned and a leased path were registered; the loop has fetched the leased one.
C7_Witness ==
    /\ ~watchConfig.nil /\ watchConfig.VersionPeriod = 0
    /\ \E i \in DOMAIN paths : IsVersionedPath(paths[i])
    /\ last.kind = "database" /\ pc = "top"

\* C8: a leased path is pushed back with due time = completion time of its fetch plus
\* the lease that fetch returned, however long the subscriber takes to accept the event.
C8_LeasedDue ==
    \A i \in DOMAIN h :
        (last.kind = "database" /\ h[i].path = last.path) =>
            h[i].nextGet = last.at + last.hint * TicksPerSec

C10_NeverDropped ==
    Running => \A p \in watched : p \in HeapPaths(h) \/ Processing(p)


\* C11: each path is in the queue at most once, and the path the loop has popped and not
\* yet pushed back is not in the queue.
C11_QueuedOnce ==
    /\ \A i, j \in DOMAIN h : h[i].path = h[j].path => i = j
    /\ \A p \in HeapPaths(h) : ~Processing(p)

\* A path that was pushed back earlier is popped again while another one is queued.
C11_Witness ==
    /\ pc = "sleeping" /\ Len(h) >= 1
    /\ last.path = event.path /\ last.kind \in {"kv", "database"}

\* C12: the event channel is closed only by the startup step that finds nothing to
\* watch, hence at most once; it is not closed when the loop ends on a fetch error, and
\* nothing is sent once it is closed.
C12_CloseOnlyAtStartup ==
    [][ /\ (~closed /\ closed') => (pc = "start" /\ pc' = "closed" /\ Len(h') = 0)
        /\ closed => (closed' /\ pc' = "closed" /\ alertChannel' = << >>)
        /\ pc' = "failed" => ~closed'
      ]_vars

\* The loop has delivered an event and then ended on a fetch error: the channel is open.
C12_Witness ==
    /\ pc = "failed" /\ ~closed /\ subGot.kind = "event" /\ now > last.at

\* C13: while a sent event is not yet accepted the loop does nothing: no fetch, no cache
\* write, no queue operation; an event enters the channel only by a successful fetch,
\* leaves it only by the subscriber's receive, which returns exactly that event, and is
\* never replaced by another one.
C13_DeliveryBlocks ==
    [][ /\ alertChannel # << >> =>
              /\ pc = "sending"
              /\ UNCHANGED <<h, secretstore, versions, leases, event, last, everFetched>>
              /\ \/ pc' = "sending" /\ alertChannel' = alertChannel /\ subGot' = subGot
                 \/ /\ pc' = "sending" /\ alertChannel' = << >>
                    /\ subGot' = [kind |-> "event", Key |-> alertChannel[1].Key,
                                  Value |-> alertChannel[1].Value]
        /\ (alertChannel = << >> /\ alertChannel' # << >>) =>
              (FetchReturns /\ Len(alertChannel') = 1)
        /\ (alertChannel = << >> /\ ~closed) => subGot' = subGot
      ]_vars

\* The loop waits with a second event while time passes; the first one was received.
C13_Witness ==
    /\ pc = "sending" /\ alertChannel # << >> /\ now > last.at
    /\ subGot.kind = "event" /\ subGot # [kind |-> "event", Key |-> alertChannel[1].Key,
                                          Value |-> alertChannel[1].Value]


\* C14 as stated: while the loop runs, the clock never passes the due time of an entry
\* that is still in the queue.
C14_NeverOverdue ==
    Running => \A i \in DOMAIN h : h[i].nextGet >= now

\* C14 amended: the clock passes the due time of a queued entry only while the loop is
\* busy with another entry (it fetches it, waits for the subscriber to accept its event,
\* or sleeps for it, and then no queued entry is due in an earlier whole second than the
\* popped one), or after the loop has ended on a fetch error; the loop never idles or
\* stays unstarted with an entry queued.
C14_OverdueOnlyWhileBusy ==
    [][ (now' > now /\ \E i \in DOMAIN h : h[i].nextGet < now') =>
          \/ pc \in {"fetching", "sending", "failed"}
          \/ /\ pc = "sleeping"
             /\ \A i \in DOMAIN h : Unix(h[i].nextGet) >= Unix(event.nextGet)
      ]_vars

\* A queued entry is overdue while the loop waits for the subscriber.
C14_Witness ==
    /\ pc = "sending" /\ alertChannel # << >>
    /\ \E i \in DOMAIN h : h[i].nextGet < now /\ Branch(h[i].path) # "none"


\* C15: when an initial fetch of AddVault fails, AddVault returns the error and the watch
\* loop is never started: no scheduled fetch, no event, no close of the channel follows.
C15_InitialErrorNoLoop ==
    addpc = "error" =>
        /\ pc = "none" /\ h = << >> /\ watched = {}
        /\ ~everFetched /\ last = NoFetch
        /\ alertChannel = << >> /\ subGot.kind = "nothing"
        /\ ~closed

\* A watching AddVault failed on its second path, and time has run out since.
C15_Witness ==
    /\ addpc = "error" /\ ~watchConfig.nil /\ idx = 2
    /\ DOMAIN leases # {} /\ now = MaxTime

\* C16: AddVault with a nil watch configuration stores the fetched value of every given
\* path in the cache and starts no loop: no lease or version is recorded, and no fetch
\* of a loop, cache write, event or close ever follows.
C16_NilConfigLoadsOnly ==
    [][ watchConfig.nil =>
          /\ leases' = << >> /\ versions' = << >>
          /\ pc' = "none" /\ h' = << >> /\ ~everFetched' /\ last' = NoFetch
          /\ alertChannel' = << >> /\ ~closed' /\ subGot'.kind = "nothing"
          /\ (addpc = "adding" /\ secretstore' # secretstore) =>
                \E r \in FetchResults(paths[idx]) :
                    ~r.err /\ secretstore' = MapSet(secretstore, paths[idx], r.data)
          /\ (addpc = "adding" /\ idx' = idx + 1) => paths[idx] \in DOMAIN secretstore'
          /\ addpc' = "ok" => DOMAIN secretstore' = { paths[i] : i \in DOMAIN paths }
          /\ addpc # "adding" => secretstore' = secretstore
      ]_vars

\* Both kinds of path were loaded without a watch configuration; time has run out.
C16_Witness ==
    /\ watchConfig.nil /\ addpc = "ok" /\ Len(paths) = 2 /\ now = MaxTime
    /\ \E i \in DOMAIN paths : IsLeasedPath(paths[i])


\* C17: the version recorded for a path changes only to a strictly greater one: a fetch
\* that returns an equal or lower version leaves it as it is, so it never decreases.
C17_RecordedVersionMonotone ==
    [][ \A p \in DOMAIN versions :
            p \in DOMAIN versions' /\ versions'[p] >= versions[p] ]_vars

\* C19: while an event (path, value) of the loop waits for the subscriber, and so at the
\* moment it is received, the cache entry of that path holds that value.
C19_CacheBeforeEvent ==
    alertChannel # << >> =>
        /\ alertChannel[1].Key \in DOMAIN secretstore
        /\ secretstore[alertChannel[1].Key] = alertChannel[1].Value

\* The second event of a path carries another value than its first one.
C19_Witness ==
    /\ pc = "sending" /\ alertChannel # << >> /\ now > last.at
    /\ subGot.kind = "event" /\ subGot.Key = alertChannel[1].Key
    /\ subGot.Value # alertChannel[1].Value


\* The steps of the watch goroutine.
LoopStep ==
    \/ WatchStart \/ LoopIdle \/ IdleWake \/ LoopPop \/ LoopWake \/ LoopSkip
    \/ FetchFail \/ FetchVersioned \/ FetchLeased \/ AfterSend

\* The goroutine runs when it can, every call of c.get returns, the subscriber
\* accepts what is sent, and time passes.
FairSpec == Spec /\ WF_vars(LoopStep) /\ WF_vars(Recv) /\ WF_vars(Tick)

AllPaths == { ThreePaths[i] : i \in DOMAIN ThreePaths }

\* C18: a path of the initial watch set is fetched again and again, unless a fetch has
\* failed; within the bounded clock: at every point of the run a fetch of the path
\* follows, or a fetch fails, or the clock reaches its bound with the path still scheduled.
C18_FetchedAgain ==
    \A p \in AllPaths :
        (p \in watched /\ Running) ~>
            \/ pc = "fetching" /\ event.path = p
            \/ pc = "failed"
            \/ now = MaxTime /\ (p \in HeapPaths(h) \/ Processing(p))


\* ===================================================================
\* A later AddVault call on the same Viper, while the first loop runs
\* ===================================================================
\* The path the later call loads (watchConfig nil: it starts no loop of its own).
Load2Paths == { <<"db", "r">>, <<"kv", "b">> }

\* Line 245 of the later call: c.Get returns a value, or an error and the call ends.
Load2Get ==
    /\ load2.pc = "none" /\ addpc = "ok" /\ pc # "none"
    /\ \E p \in Load2Paths : \E r \in FetchResults(p) :
         load2' = IF r.err THEN [NoLoad EXCEPT !.pc = "done"]
                  ELSE [pc |-> "fetched", path |-> p, data |-> r.data, snap |-> << >>]
    /\ UNCHANGED <<now, paths, watchConfig, addpc, idx, leases, versions, secretstore, pc,
                   h, event, oldVersion, leaseTime, alertChannel, closed, subGot, last,
                   watched, everFetched>>

\* Line 249 of the later call: the map assignment begins; it takes no lock.
Load2Begin ==
    /\ load2.pc = "fetched"
    /\ load2' = [load2 EXCEPT !.pc = "write", !.snap = secretstore]
    /\ UNCHANGED <<now, paths, watchConfig, addpc, idx, leases, versions, secretstore, pc,
                   h, event, oldVersion, leaseTime, alertChannel, closed, subGot, last,
                   watched, everFetched>>

\* Line 249 of the later call: the map assignment ends.  When the loop has written the
\* map meanwhile, the two unsynchronised writes have raced: the runtime aborts the
\* process ("concurrent map writes"), or either write or both take effect.
Load2End ==
    /\ load2.pc = "write"
    /\ \/ /\ secretstore' \in
                IF secretstore = load2.snap
                THEN { MapSet(secretstore, load2.path, load2.data) }
                ELSE { MapSet(secretstore, load2.path, load2.data),
                       MapSet(load2.snap, load2.path, load2.data),
                       secretstore }
          /\ load2' = [NoLoad EXCEPT !.pc = "done"]
       \/ /\ secretstore # load2.snap
          /\ secretstore' = secretstore
          /\ load2' = [NoLoad EXCEPT !.pc = "fatal"]
    /\ UNCHANGED <<now, paths, watchConfig, addpc, idx, leases, versions, pc, h, event,
                   oldVersion, leaseTime, alertChannel, closed, subGot, last, watched,
                   everFetched>>

\* The first call watches one leased path; of the steps of Next, those this
\* configuration never enables (LoopIdle, IdleWake, LoopSkip, FetchVersioned,
\* RecvClosed) are left out.
InitTwo ==
    /\ Init
    /\ now = 0
    /\ paths = << <<"db", "r">> >>
    /\ watchConfig = [nil |-> FALSE, VersionPeriod |-> 0]

\* Once the runtime has aborted the process nothing runs any more.
Alive == load2.pc # "fatal"

NextTwo ==
    \/ Alive /\ AddVaultGetFail
    \/ Alive /\ AddVaultGet
    \/ Alive /\ AddVaultReturn
    \/ Alive /\ WatchStart
    \/ Alive /\ LoopPop
    \/ Alive /\ LoopWake
    \/ Alive /\ FetchFail
    \/ Alive /\ FetchLeased
    \/ Alive /\ AfterSend
    \/ Alive /\ Recv
    \/ Alive /\ Tick
    \/ Alive /\ Load2Get
    \/ Alive /\ Load2Begin
    \/ Alive /\ Load2End

SpecTwo == InitTwo /\ [][NextTwo]_vars

\* C20: a cache write of the watch loop never happens while another unsynchronised
\* write of the cache, here the load of a later AddVault call, is in progress.
C20_NoConcurrentCacheWrite ==
    [][ (load2.pc = "write" /\ load2'.pc = "write") => secretstore' = secretstore ]_vars

====
